---- MODULE Spec2Model ----
(***************************************************************************)
(* Model of git-action-commit-info: run() (src/src/index.ts) and           *)
(* getCommitInfo() (src/src/git.ts).                                       *)
(*                                                                         *)
(* Texts (JavaScript strings) are sequences of tokens.  A token is an      *)
(* atomic piece of text; the tokens are cut so that every character or     *)
(* substring the code looks for (a digit, a sign, "|", a newline,          *)
(* "ambiguous argument", "unknown revision") is a token of its own.        *)
(* The length of a text is the sum of the lengths of its tokens.           *)
(***************************************************************************)
EXTENDS Integers, Sequences, FiniteSets, TLC

VARIABLES
    numCommits,     \* repository: length of the linear history reachable from HEAD
    fault,          \* environment: how the subprocess collaborator currently fails
    flavour,        \* environment: what the repository holds and the queries print
    gitWorkingDirectory, \* git.ts:12  process.env.GIT_WORKING_DIRECTORY
    processCwd,     \* git.ts:12    process.cwd()
    stepDebug,      \* index.ts:25  process.env.ACTIONS_STEP_DEBUG is "true"
    inputOffset,    \* INPUT_OFFSET of each invocation (raw text)
    inputVerbose,   \* INPUT_VERBOSE of each invocation (raw text)
    pc,             \* position of each invocation of run()
    offset,         \* index.ts:16  parsed offset
    verbose,        \* index.ts:13  parsed verbose flag
    gitRef,         \* git.ts:28    resolved reference
    cwd,            \* git.ts:32    working directory of the queries
    parts,          \* git.ts:64    the split fields, kept across the second await
    execLog,        \* the exec() calls of each invocation, in order
    calls,          \* the @actions/core calls of each invocation, in order
    result          \* what getCommitInfo gave back to run()

vars == <<numCommits, fault, flavour, gitWorkingDirectory, processCwd, stepDebug,
          inputOffset, inputVerbose, pc, offset, verbose, gitRef, cwd, parts, execLog,
          calls, result>>

Procs == {1, 2}

\* ---------------------------------------------------------------- bounds
MaxCommits == 4

\* ------------------------------------------------------------ text basics
Whitespace == {" ", "\n", "\t"}

DigitChars == <<"0", "1", "2", "3", "4", "5", "6", "7", "8", "9">>

IsDigit(ch) == \E d \in 1..10 : DigitChars[d] = ch

DigitVal(ch) == (CHOOSE d \in 1..10 : DigitChars[d] = ch) - 1

RECURSIVE TextLen(_)
TextLen(t) == IF t = <<>> THEN 0 ELSE Len(Head(t)) + TextLen(Tail(t))

\* String.prototype.includes, for a needle that is one token
Includes(t, needle) == \E k \in 1..Len(t) : t[k] = needle

RECURSIVE TrimStart(_)
TrimStart(t) ==
    IF t # <<>> /\ Head(t) \in Whitespace THEN TrimStart(Tail(t)) ELSE t

RECURSIVE TrimEnd(_)
TrimEnd(t) ==
    IF t # <<>> /\ t[Len(t)] \in Whitespace
    THEN TrimEnd(SubSeq(t, 1, Len(t) - 1))
    ELSE t

\* Mutant: trim that also drops the line breaks inside the text
Trim_Squeeze(t) == SelectSeq(TrimEnd(TrimStart(t)), LAMBDA ch : ch # "\n")

\* String.prototype.trim
Trim(t) == TrimEnd(TrimStart(t))

\* String.prototype.split(sep), sep one token: always at least one part
RECURSIVE Split(_, _)
Split(t, sep) ==
    CHOOSE ps \in
        { IF \A k \in 1..Len(x) : x[k] # sep
          THEN <<x>>
          ELSE LET k == CHOOSE j \in 1..Len(x) :
                            x[j] = sep /\ \A m \in 1..(j - 1) : x[m] # sep
               IN  <<SubSeq(x, 1, k - 1)>> \o Split(SubSeq(x, k + 1, Len(x)), sep)
          : x \in {t} } : TRUE

\* Number to decimal text, as a template literal prints an integer
RECURSIVE NatToText(_)
NatToText(n) ==
    IF n < 10 THEN <<DigitChars[n + 1]>>
    ELSE NatToText(n \div 10) \o <<DigitChars[(n % 10) + 1]>>

NumToText(n) == IF n < 0 THEN <<"-">> \o NatToText(0 - n) ELSE NatToText(n)

\* --------------------------------------------------------------- parseInt
RECURSIVE LeadingDigits(_)
LeadingDigits(t) ==
    IF t # <<>> /\ IsDigit(Head(t)) THEN <<Head(t)>> \o LeadingDigits(Tail(t))
    ELSE <<>>

RECURSIVE DigitsValue(_, _)
DigitsValue(ds, acc) ==
    IF ds = <<>> THEN acc
    ELSE DigitsValue(Tail(ds), 10 * acc + DigitVal(Head(ds)))

\* parseInt(s, 10): leading whitespace skipped, optional sign, then the
\* longest run of digits; whatever follows is ignored; no digit at all: NaN
ParseInt(s) ==
    LET t   == TrimStart(s)
        neg == t # <<>> /\ Head(t) = "-"
        u   == IF t # <<>> /\ Head(t) \in {"+", "-"} THEN Tail(t) ELSE t
        ds  == LeadingDigits(u)
    IN  IF ds = <<>> THEN [nan |-> TRUE, val |-> 0]
        ELSE [nan |-> FALSE,
              val |-> IF neg THEN 0 - DigitsValue(ds, 0) ELSE DigitsValue(ds, 0)]

\* ------------------------------------------------- inputs of the model
\* Raw values of the offset input; <<>> is the absent or empty input
RawOffsets ==
    { <<>>, <<"0">>, <<"1">>, <<"2">>, <<"3">>, <<"4">>, <<"5">>,
      <<"-", "1">>, <<"-", "2">>, <<"-", "3">>, <<"-", "5">>, <<"+", "2">>,
      <<"1", "0", "0">>, <<"-", "0">>,
      <<"1", ".", "5">>, <<"1", "2", "a", "b", "c">>, <<" ", "3">>,
      <<"not-a-number">>, <<"-">>, <<"a", "1">> }

\* Raw values of the verbose input
RawVerbose == {"true", "True", "false", "FALSE", "yes", ""}

\* The offsets and flags of the two-invocation specification
PairOffsets == { <<>>, <<"0">>, <<"2">>, <<"-", "2">>, <<"5">>, <<"-", "5">>, <<"a", "1">> }

PairVerbose == {"true", "false"}

\* How the subprocess collaborator can fail whatever the repository holds
Faults == {"none", "nogit", "ambiguous", "unknownrev"}

\* What a successful query gives back.  Repositories as git reports them:
\*   plain         one-line messages, as the test repository has
\*   titled        a title, a blank line and a description
\*   wrapped       a title that runs over two lines
\*   verbatim      a message committed as typed: a blank line first, an
\*                 indented description, blank lines last
\*   pipe          a "|" in the title
\*   pipeRevision  a "|" and the words "unknown revision" in the title
\*   sha256        a repository whose object ids have 64 characters
\* Texts a query executor can hand back that git itself would not print:
\*   blank         only whitespace
\*   nonhex        a first field of 40 characters that are not hexadecimal
\*   noshort       an empty second field
\*   nosha         an empty first field
\*   revisionSha   the words "unknown revision" as the first field
GitFlavours == {"plain", "titled", "wrapped", "verbatim"}

Flavours ==
    GitFlavours \cup {"pipe", "pipeRevision", "sha256",
                      "blank", "nonhex", "noshort", "nosha", "revisionSha"}

\* The repositories of the two-invocation specification
PairFlavours == {"plain"}

\* A path is a text whose separators are tokens of their own
WorkDir == <<"/", "work">>

TestDir == <<"/", "tmp", "/", "repo">>

\* The directories the process can be in
Dirs == {WorkDir, <<"/", "home">>}

\* GIT_WORKING_DIRECTORY: unset, empty, an absolute path, a relative path
Unset == [set |-> FALSE, val |-> <<>>]

EnvValue(text) == [set |-> TRUE, val |-> text]

Overrides == {Unset, EnvValue(<<>>), EnvValue(TestDir), EnvValue(<<"sub">>)}

\* The inputs of the working-directory specification
DirOffsets == { <<"0">>, <<"1">> }

\* ------------------------------------------------------ @actions/core
\* the empty input is not defaulted
OffsetInputOf_NoDefault(raw) == raw

\* core.getInput(name) || "0"
OffsetInputOf(raw) == IF raw = <<>> THEN <<"0">> ELSE raw

\* core.getBooleanInput: YAML 1.2 core schema booleans, anything else throws
TrueValues == {"true", "True", "TRUE"}

FalseValues == {"false", "False", "FALSE"}

BooleanInputMsg ==
    <<"Input does not meet YAML 1.2 \"Core Schema\" specification: ", "verbose">>

CoreCall(fn, key, val) == [fn |-> fn, key |-> key, val |-> val]

\* ------------------------------------------------------------ repository
\* Commit k of the linear history (1 = root, numCommits = HEAD)
Ordinal == <<"Initial", "Second", "Third", "Fourth", "Fifth", "Sixth", "Seventh">>

RECURSIVE Repeat(_, _)
Repeat(ch, n) == IF n = 0 THEN <<>> ELSE <<ch>> \o Repeat(ch, n - 1)

\* %H of commit k in a SHA-1 repository: 40 hexadecimal characters
CommitSha(k) == <<"c", "0", "f", "f", "e", "e", DigitChars[k + 1]>> \o Repeat("0", 33)

\* %h: the first 7 characters of %H
CommitShortSha(k) == SubSeq(CommitSha(k), 1, 7)

\* %H as the query prints it
FullIdOf(fl, k) ==
    IF fl = "sha256" THEN CommitSha(k) \o Repeat("a", 24)
    ELSE IF fl = "nonhex" THEN Repeat("z", 40)
    ELSE IF fl = "nosha" THEN <<>>
    ELSE IF fl = "revisionSha" THEN <<"unknown revision">>
    ELSE CommitSha(k)

\* %h as the query prints it
ShortIdOf(fl, k) ==
    IF fl = "nonhex" THEN Repeat("z", 7)
    ELSE IF fl = "noshort" THEN <<>>
    ELSE CommitShortSha(k)

\* The commit message as it was committed
CommitMessage(fl, k) ==
    IF fl = "titled"
    THEN <<"Title line", "\n", "\n", "Extended description.", "\n">>
    ELSE IF fl = "wrapped"
    THEN <<"Fix the", "\n", "parser", "\n", "\n", "Details", "\n">>
    ELSE IF fl = "verbatim"
    THEN <<"\n", "Kept", "\n", "\n", "\t", "tail", "\n", "\n">>
    ELSE IF fl = "pipe"
    THEN <<"a", " ", "|", " ", "b", "\n">>
    ELSE IF fl = "pipeRevision"
    THEN <<"revert", " ", "|", " ", "unknown revision", "\n">>
    ELSE <<Ordinal[k], " ", "commit", "\n">>

\* The lines of a message from its first line that is not blank
RECURSIVE SkipBlankLines(_)
SkipBlankLines(lines) ==
    IF lines # <<>> /\ Head(lines) = <<>> THEN SkipBlankLines(Tail(lines)) ELSE lines

\* The lines of the first paragraph of a message
RECURSIVE FirstParagraph(_)
FirstParagraph(lines) ==
    IF lines = <<>> \/ Head(lines) = <<>> THEN <<>>
    ELSE <<Head(lines)>> \o FirstParagraph(Tail(lines))

RECURSIVE JoinWithSpace(_)
JoinWithSpace(lines) ==
    IF lines = <<>> THEN <<>>
    ELSE IF Len(lines) = 1 THEN Head(lines)
    ELSE Head(lines) \o <<" ">> \o JoinWithSpace(Tail(lines))

\* %s: the first paragraph of the message, its lines joined by a space
CommitSubject(fl, k) ==
    JoinWithSpace(FirstParagraph(SkipBlankLines(Split(CommitMessage(fl, k), "\n"))))

\* %B: the message as it was committed
CommitBody(fl, k) == CommitMessage(fl, k)

CommitAuthor(k) == <<"Test", " ", "User">>

CommitEmail(k) == <<"test@example.com">>

CommitAuthorDate(k) == <<"2024-01-0" \o DigitChars[k + 1], " ", "10:00:00", " ", "+0000">>

CommitCommitterDate(k) == <<"2024-01-0" \o DigitChars[k + 1], " ", "11:30:00", " ", "+0000">>

FieldsFormat == "--format=%H|%h|%s|%an|%ae|%ai|%ci"

BodyFormat == "--format=%B"

\* git's reading of a reference: HEAD, or HEAD~<digits>
RefValid(ref) ==
    \/ ref = <<"HEAD">>
    \/ /\ Len(ref) >= 2
       /\ Head(ref) = "HEAD~"
       /\ \A k \in 2..Len(ref) : IsDigit(ref[k])

\* HEAD is depth 0, HEAD~<digits> is depth <digits>
RefDepth(ref) ==
    IF ref = <<"HEAD">> THEN 0 ELSE DigitsValue(Tail(ref), 0)

\* What `git log -1 <format> <ref>` prints for commit k
GitLogOutput(format, fl, k) ==
    IF format = FieldsFormat
    THEN IF fl = "blank" THEN <<" ", "\n">>
         ELSE FullIdOf(fl, k) \o <<"|">> \o ShortIdOf(fl, k) \o <<"|">>
              \o CommitSubject(fl, k) \o <<"|">> \o CommitAuthor(k) \o <<"|">>
              \o CommitEmail(k) \o <<"|">> \o CommitAuthorDate(k) \o <<"|">>
              \o CommitCommitterDate(k) \o <<"\n">>
    ELSE CommitBody(fl, k) \o <<"\n">>

\* The message of the error exec() rejects with when the tool exits non-zero;
\* git's own "fatal: ambiguous argument ..." goes to stderr and is not part of it
ExitCodeMsg == <<"The process '/usr/bin/git' failed with exit code ", "128">>

FaultMsg(f) ==
    IF f = "nogit"
    THEN <<"Unable to locate executable file: ", "git">>
    ELSE IF f = "ambiguous"
    THEN <<"fatal: ", "ambiguous argument", " 'HEAD': ", "unknown revision",
           " or path not in the working tree.">>
    ELSE <<"fatal: ", "unknown revision", " or path">>

\* Mutant: the root commit cannot be reached
Exec_RootUnreachable(format, ref, f, commits, fl) ==
    IF f # "none"
    THEN [ok |-> FALSE, out |-> <<>>, msg |-> FaultMsg(f)]
    ELSE IF RefValid(ref) /\ RefDepth(ref) < commits - 1
    THEN [ok |-> TRUE, out |-> GitLogOutput(format, fl, commits - RefDepth(ref)),
          msg |-> <<>>]
    ELSE [ok |-> FALSE, out |-> <<>>, msg |-> ExitCodeMsg]

\* Mutant: once step debugging is on, what the subprocess echoes is captured
\* a second time
Exec_EchoCaptured(format, ref, f, commits, fl) ==
    IF f # "none"
    THEN [ok |-> FALSE, out |-> <<>>, msg |-> FaultMsg(f)]
    ELSE IF RefValid(ref) /\ RefDepth(ref) < commits
    THEN [ok |-> TRUE,
          out |-> IF stepDebug
                  THEN GitLogOutput(format, fl, commits - RefDepth(ref))
                       \o GitLogOutput(format, fl, commits - RefDepth(ref))
                  ELSE GitLogOutput(format, fl, commits - RefDepth(ref)),
          msg |-> <<>>]
    ELSE [ok |-> FALSE, out |-> <<>>, msg |-> ExitCodeMsg]

\* await exec("git", ["log", "-1", format, ref], options): resolves with the
\* captured stdout, or rejects with an Error carrying `msg`
Exec(format, ref, f, commits, fl) ==
    IF f # "none"
    THEN [ok |-> FALSE, out |-> <<>>, msg |-> FaultMsg(f)]
    ELSE IF RefValid(ref) /\ RefDepth(ref) < commits
    THEN [ok |-> TRUE, out |-> GitLogOutput(format, fl, commits - RefDepth(ref)),
          msg |-> <<>>]
    ELSE [ok |-> FALSE, out |-> <<>>, msg |-> ExitCodeMsg]

\* ------------------------------------------------------------- logger.ts
\* Logger.isVerbose() of the Logger that run() constructs with the verbose
\* flag (index.ts:34).  logger.ts is not among the sources: the diagnostics
\* collaborator takes leveled messages, reports the flag it was given and has
\* no other effect.
IsVerbose(flag) == flag

\* ---------------------------------------------------------------- git.ts
\* path.isAbsolute (POSIX)
IsAbsolute(p) == p # <<>> /\ Head(p) = "/"

\* path.resolve(p) for a relative p: the process directory, then p
Resolve(p, pcwd) == pcwd \o <<"/">> \o p

\* Mutant: the override is used as it is given
GetGitWorkingDirectory_AsGiven(env, pcwd) ==
    IF env.set /\ env.val # <<>> THEN env.val ELSE pcwd

\* git.ts:11-15
GetGitWorkingDirectory(env, pcwd) ==
    LET dir == IF env.set /\ env.val # <<>> THEN env.val ELSE pcwd
    IN  IF IsAbsolute(dir) THEN dir ELSE Resolve(dir, pcwd)

\* the sign is passed through
AbsOffset_Identity(n) == n

\* git.ts:25  Math.abs(offset)
AbsOffset(n) == IF n < 0 THEN 0 - n ELSE n

\* the offset 0 is not special-cased
GitRefOf_AlwaysTilde(absOffset) == <<"HEAD~">> \o NumToText(absOffset)

\* the reference is one commit too far back
GitRefOf_OffByOne(absOffset) == <<"HEAD~">> \o NumToText(absOffset + 1)

\* git.ts:28  HEAD for offset 0, HEAD~{offset} for others
GitRefOf(absOffset) ==
    IF absOffset = 0 THEN <<"HEAD">> ELSE <<"HEAD~">> \o NumToText(absOffset)

OffsetContext(n, ref) ==
    <<" for offset ">> \o NumToText(n) \o <<" (git ref: ">> \o ref

\* git.ts:60
NoCommitMsg(n, ref) == <<"No commit found">> \o OffsetContext(n, ref) \o <<")">>

\* git.ts:66
UnexpectedFormatMsg(res) == <<"Unexpected git log format", ": ">> \o res

\* git.ts:73
InvalidShaMsg(sha) == <<"Invalid commit SHA format", ": ">> \o sha

\* git.ts:114
NotFoundMsg(n, ref) ==
    <<"Commit not found">> \o OffsetContext(n, ref)
        \o <<"). ", "Offset may exceed commit history.">>

\* git.ts:116
FailedMsg(n, ref, message) ==
    <<"Failed to get commit info">> \o OffsetContext(n, ref) \o <<"): ">> \o message

\* the caught error is re-thrown as it is
CatchMessage_Rethrow(message, n, ref) == message

\* every caught error is reported as a missing commit
CatchMessage_AlwaysNotFound(message, n, ref) == NotFoundMsg(n, ref)

\* only the first of the two substrings is looked for
CatchMessage_OnlyAmbiguous(message, n, ref) ==
    IF Includes(message, "ambiguous argument")
    THEN NotFoundMsg(n, ref)
    ELSE FailedMsg(n, ref, message)

\* git.ts:111-117  the catch block: what is re-thrown for a caught message
CatchMessage(message, n, ref) ==
    IF Includes(message, "ambiguous argument") \/ Includes(message, "unknown revision")
    THEN NotFoundMsg(n, ref)
    ELSE FailedMsg(n, ref, message)

\* Mutant: the length of the id is not checked
CheckFields_NoShaCheck(output, n, ref) ==
    CHOOSE chk \in
        { IF res = <<>>
          THEN [ok |-> FALSE, parts |-> <<>>, msg |-> NoCommitMsg(n, ref)]
          ELSE CHOOSE c \in
                   { IF Len(ps) # 7
                     THEN [ok |-> FALSE, parts |-> <<>>, msg |-> UnexpectedFormatMsg(res)]
                     ELSE [ok |-> TRUE, parts |-> ps, msg |-> <<>>]
                     : ps \in {Split(res, "|")} } : TRUE
          : res \in {Trim(output)} } : TRUE

\* git.ts:57-74  trim, split and validate the captured output of the fields query
\* (res and ps are bound once, as the constants of the code are)
CheckFields(output, n, ref) ==
    CHOOSE chk \in
        { IF res = <<>>
          THEN [ok |-> FALSE, parts |-> <<>>, msg |-> NoCommitMsg(n, ref)]
          ELSE CHOOSE c \in
                   { IF Len(ps) # 7
                     THEN [ok |-> FALSE, parts |-> <<>>, msg |-> UnexpectedFormatMsg(res)]
                     ELSE IF ps[1] = <<>> \/ TextLen(ps[1]) # 40
                     THEN [ok |-> FALSE, parts |-> <<>>, msg |-> InvalidShaMsg(ps[1])]
                     ELSE [ok |-> TRUE, parts |-> ps, msg |-> <<>>]
                     : ps \in {Split(res, "|")} } : TRUE
          : res \in {Trim(output)} } : TRUE

\* the fields after the full id are read one position too far
CommitInfoOf_ShortShifted(ps, messageRaw) ==
    [sha |-> ps[1], shortSha |-> ps[3], message |-> ps[3],
     messageRaw |-> messageRaw, author |-> ps[4], authorEmail |-> ps[5],
     date |-> ps[7], dateISO |-> ps[7]]

\* Mutant: once an earlier call switched step debugging on, the body is
\* left out of the record
CommitInfoOf_DebugSticky(ps, messageRaw) ==
    [sha |-> ps[1], shortSha |-> ps[2], message |-> ps[3],
     messageRaw |-> IF stepDebug THEN <<>> ELSE messageRaw,
     author |-> ps[4], authorEmail |-> ps[5],
     date |-> ps[7], dateISO |-> ps[7]]

\* Mutant: the dates are taken from the author timestamp
CommitInfoOf_AuthorDate(ps, messageRaw) ==
    [sha |-> ps[1], shortSha |-> ps[2], message |-> ps[3],
     messageRaw |-> messageRaw, author |-> ps[4], authorEmail |-> ps[5],
     date |-> ps[6], dateISO |-> ps[6]]

\* git.ts:99-108  the CommitInfo literal
CommitInfoOf(ps, messageRaw) ==
    [sha |-> ps[1], shortSha |-> ps[2], message |-> ps[3],
     messageRaw |-> messageRaw, author |-> ps[4], authorEmail |-> ps[5],
     date |-> ps[7], dateISO |-> ps[7]]

NoInfo ==
    [sha |-> <<>>, shortSha |-> <<>>, message |-> <<>>, messageRaw |-> <<>>,
     author |-> <<>>, authorEmail |-> <<>>, date |-> <<>>, dateISO |-> <<>>]

NoResult == [kind |-> "none", info |-> NoInfo, msg |-> <<>>]

Returned(info) == [kind |-> "record", info |-> info, msg |-> <<>>]

Thrown(msg) == [kind |-> "error", info |-> NoInfo, msg |-> msg]

\* Mutant: the message body query is issued without the resolved reference
ExecCall_BodyAtHead(format, ref, silent, dir) ==
    [program |-> "git",
     args |-> <<"log", "-1", format, IF format = BodyFormat THEN <<"HEAD">> ELSE ref>>,
     format |-> format, ref |-> IF format = BodyFormat THEN <<"HEAD">> ELSE ref,
     silent |-> silent, cwd |-> dir,
     pending |-> TRUE, ok |-> FALSE, fault |-> "none", out |-> <<>>, msg |-> <<>>]

\* One exec() call as the log keeps it: the arguments when it is issued,
\* the outcome when it completes
ExecCall(format, ref, silent, dir) ==
    [program |-> "git", args |-> <<"log", "-1", format, ref>>,
     format |-> format, ref |-> ref, silent |-> silent, cwd |-> dir,
     pending |-> TRUE, ok |-> FALSE, fault |-> "none", out |-> <<>>, msg |-> <<>>]

ExecDone(call, ex, f) ==
    [call EXCEPT !.pending = FALSE, !.ok = ex.ok, !.fault = f, !.out = ex.out,
                 !.msg = ex.msg]

\* -------------------------------------------------------------- index.ts
\* index.ts:18
InvalidOffsetMsg(offsetInput) ==
    <<"Invalid offset value", ": \"">> \o offsetInput
        \o <<"\". Offset must be an integer.">>

\* index.ts:44
GettingInfo(n) ==
    <<CoreCall("info", "", <<"Getting commit info for offset: ">> \o NumToText(n))>>

\* the author name and the author email are set under each other's key
SetOutputs_AuthorSwapped(info) ==
    << CoreCall("setOutput", "sha", info.sha),
       CoreCall("setOutput", "shortSha", info.shortSha),
       CoreCall("setOutput", "message", info.message),
       CoreCall("setOutput", "author", info.authorEmail),
       CoreCall("setOutput", "authorEmail", info.author),
       CoreCall("setOutput", "date", info.date),
       CoreCall("setOutput", "dateISO", info.dateISO) >>

\* index.ts:48-54
SetOutputs(info) ==
    << CoreCall("setOutput", "sha", info.sha),
       CoreCall("setOutput", "shortSha", info.shortSha),
       CoreCall("setOutput", "message", info.message),
       CoreCall("setOutput", "author", info.author),
       CoreCall("setOutput", "authorEmail", info.authorEmail),
       CoreCall("setOutput", "date", info.date),
       CoreCall("setOutput", "dateISO", info.dateISO) >>

\* index.ts:57-63
Summary(info) ==
    << CoreCall("info", "", <<"Successfully retrieved commit information">>),
       CoreCall("info", "", <<"Commit Info:">>),
       CoreCall("info", "", <<"   SHA: ">> \o info.sha),
       CoreCall("info", "", <<"   Short SHA: ">> \o info.shortSha),
       CoreCall("info", "", <<"   Message: ">> \o info.message),
       CoreCall("info", "", <<"   Author: ">> \o info.author \o <<" <">>
                                \o info.authorEmail \o <<">">>),
       CoreCall("info", "", <<"   Date: ">> \o info.dateISO) >>

\* Mutant: the failure is logged but the run is not marked as failed
RunCatch_OnlyLog(msg) == <<CoreCall("error", "", msg)>>

\* the failure is reported without being logged
RunCatch_NoLog(msg) == <<CoreCall("setFailed", "", msg)>>

\* index.ts:66-70  the catch block of run()
RunCatch(msg) == <<CoreCall("error", "", msg), CoreCall("setFailed", "", msg)>>

\* ----------------------------------------------------------------- state
TypeOK ==
    /\ numCommits \in 0..MaxCommits
    /\ fault \in Faults
    /\ flavour \in Flavours
    /\ stepDebug \in BOOLEAN
    /\ pc \in [Procs -> {"idle", "start", "fields", "body", "done"}]
    /\ verbose \in [Procs -> BOOLEAN]
    /\ offset \in [Procs -> Int]

InitLocals ==
    /\ stepDebug = FALSE
    /\ offset = [i \in Procs |-> 0]
    /\ verbose = [i \in Procs |-> FALSE]
    /\ gitRef = [i \in Procs |-> <<>>]
    /\ cwd = [i \in Procs |-> <<>>]
    /\ parts = [i \in Procs |-> <<>>]
    /\ execLog = [i \in Procs |-> <<>>]
    /\ calls = [i \in Procs |-> <<>>]
    /\ result = [i \in Procs |-> NoResult]

\* One invocation of run(): the second slot stays idle
Init ==
    /\ numCommits \in 0..MaxCommits
    /\ fault \in Faults
    /\ flavour \in Flavours
    /\ gitWorkingDirectory = Unset
    /\ processCwd = WorkDir
    /\ \E raw \in RawOffsets, flag \in RawVerbose :
          /\ inputOffset = [i \in Procs |-> IF i = 1 THEN raw ELSE <<"0">>]
          /\ inputVerbose = [i \in Procs |-> IF i = 1 THEN flag ELSE "false"]
    /\ pc = [i \in Procs |-> IF i = 1 THEN "start" ELSE "idle"]
    /\ InitLocals

\* Two invocations against the same repository
InitPair ==
    /\ numCommits \in 0..MaxCommits
    /\ fault \in Faults
    /\ flavour \in PairFlavours
    /\ gitWorkingDirectory = Unset
    /\ processCwd = WorkDir
    /\ inputOffset \in [Procs -> PairOffsets]
    /\ inputVerbose \in [Procs -> PairVerbose]
    /\ pc = [i \in Procs |-> "start"]
    /\ InitLocals

\* One invocation; the override and the process directory are anything and
\* may change while the queries are in flight
InitDir ==
    /\ numCommits \in 0..MaxCommits
    /\ fault = "none"
    /\ flavour = "plain"
    /\ gitWorkingDirectory \in Overrides
    /\ processCwd \in Dirs
    /\ \E raw \in DirOffsets :
          inputOffset = [i \in Procs |-> IF i = 1 THEN raw ELSE <<"0">>]
    /\ inputVerbose = [i \in Procs |-> "false"]
    /\ pc = [i \in Procs |-> IF i = 1 THEN "start" ELSE "idle"]
    /\ InitLocals

\* run() fails: index.ts:66-75
Fail(i, msg, thrown) ==
    /\ calls' = [calls EXCEPT ![i] = @ \o RunCatch(msg)]
    /\ result' = [result EXCEPT ![i] = thrown]
    /\ pc' = [pc EXCEPT ![i] = "done"]

\* index.ts:10-45 and git.ts:23-56: from the start of run() to the first await
RunStart(i) ==
    /\ pc[i] = "start"
    /\ LET offsetInput == OffsetInputOf(inputOffset[i])
           parsed      == ParseInt(offsetInput)
           flag        == inputVerbose[i] \in TrueValues
           ref         == GitRefOf(AbsOffset(parsed.val))
           dir         == GetGitWorkingDirectory(gitWorkingDirectory, processCwd)
       IN  IF inputVerbose[i] \notin TrueValues \cup FalseValues
           THEN /\ Fail(i, BooleanInputMsg, NoResult)
                /\ UNCHANGED <<offset, verbose, gitRef, cwd, execLog, stepDebug>>
           ELSE IF parsed.nan
           THEN /\ Fail(i, InvalidOffsetMsg(offsetInput), NoResult)
                /\ verbose' = [verbose EXCEPT ![i] = flag]
                /\ UNCHANGED <<offset, gitRef, cwd, execLog, stepDebug>>
           ELSE /\ offset' = [offset EXCEPT ![i] = parsed.val]
                /\ verbose' = [verbose EXCEPT ![i] = flag]
                /\ stepDebug' = (stepDebug \/ flag)
                /\ gitRef' = [gitRef EXCEPT ![i] = ref]
                /\ cwd' = [cwd EXCEPT ![i] = dir]
                /\ calls' = [calls EXCEPT ![i] = @ \o GettingInfo(parsed.val)]
                /\ execLog' = [execLog EXCEPT ![i] =
                                  <<ExecCall(FieldsFormat, ref, ~IsVerbose(flag), dir)>>]
                /\ pc' = [pc EXCEPT ![i] = "fields"]
                /\ UNCHANGED result
    /\ UNCHANGED <<numCommits, fault, flavour, gitWorkingDirectory, processCwd, inputOffset,
                   inputVerbose, parts>>

\* Mutant: the split fields are kept in one place for all invocations
FieldsDone_SharedParts(i) ==
    /\ pc[i] = "fields"
    /\ LET ex   == Exec(FieldsFormat, gitRef[i], fault, numCommits, flavour)
           chk  == CheckFields(ex.out, offset[i], gitRef[i])
           logd == <<ExecDone(execLog[i][1], ex, fault)>>
       IN  IF ~ex.ok \/ ~chk.ok
           THEN /\ Fail(i, CatchMessage(IF ex.ok THEN chk.msg ELSE ex.msg,
                                        offset[i], gitRef[i]),
                        Thrown(CatchMessage(IF ex.ok THEN chk.msg ELSE ex.msg,
                                            offset[i], gitRef[i])))
                /\ execLog' = [execLog EXCEPT ![i] = logd]
                /\ UNCHANGED parts
           ELSE /\ parts' = [j \in Procs |-> chk.parts]
                /\ execLog' = [execLog EXCEPT ![i] =
                                  logd \o <<ExecCall(BodyFormat, gitRef[i], ~IsVerbose(verbose[i]), cwd[i])>>]
                /\ pc' = [pc EXCEPT ![i] = "body"]
                /\ UNCHANGED <<calls, result>>
    /\ UNCHANGED <<numCommits, fault, flavour, gitWorkingDirectory, processCwd, stepDebug,
                   inputOffset, inputVerbose, offset, verbose, gitRef, cwd>>

\* Mutant: a fields query that fails is issued a second time
FieldsDone_RetryOnce(i) ==
    /\ pc[i] = "fields"
    /\ LET ex   == Exec(FieldsFormat, gitRef[i], fault, numCommits, flavour)
           chk  == CheckFields(ex.out, offset[i], gitRef[i])
           n    == Len(execLog[i])
           logd == [execLog[i] EXCEPT ![n] = ExecDone(@, ex, fault)]
       IN  IF ~ex.ok /\ n = 1
           THEN /\ execLog' = [execLog EXCEPT ![i] =
                                  logd \o <<ExecCall(FieldsFormat, gitRef[i], ~IsVerbose(verbose[i]), cwd[i])>>]
                /\ UNCHANGED <<parts, calls, result, pc>>
           ELSE IF ~ex.ok \/ ~chk.ok
           THEN /\ Fail(i, CatchMessage(IF ex.ok THEN chk.msg ELSE ex.msg,
                                        offset[i], gitRef[i]),
                        Thrown(CatchMessage(IF ex.ok THEN chk.msg ELSE ex.msg,
                                            offset[i], gitRef[i])))
                /\ execLog' = [execLog EXCEPT ![i] = logd]
                /\ UNCHANGED parts
           ELSE /\ parts' = [parts EXCEPT ![i] = chk.parts]
                /\ execLog' = [execLog EXCEPT ![i] =
                                  logd \o <<ExecCall(BodyFormat, gitRef[i], ~IsVerbose(verbose[i]), cwd[i])>>]
                /\ pc' = [pc EXCEPT ![i] = "body"]
                /\ UNCHANGED <<calls, result>>
    /\ UNCHANGED <<numCommits, fault, flavour, gitWorkingDirectory, processCwd, stepDebug,
                   inputOffset, inputVerbose, offset, verbose, gitRef, cwd>>

\* git.ts:56-88: the fields query completes; validate; issue the body query
FieldsDone(i) ==
    /\ pc[i] = "fields"
    /\ \E ex \in {Exec(FieldsFormat, gitRef[i], fault, numCommits, flavour)} :
       \E chk \in {CheckFields(ex.out, offset[i], gitRef[i])} :
       LET logd == <<ExecDone(execLog[i][1], ex, fault)>>
       IN  IF ~ex.ok
           THEN /\ Fail(i, CatchMessage(ex.msg, offset[i], gitRef[i]),
                        Thrown(CatchMessage(ex.msg, offset[i], gitRef[i])))
                /\ execLog' = [execLog EXCEPT ![i] = logd]
                /\ UNCHANGED parts
           ELSE IF ~chk.ok
           THEN /\ Fail(i, CatchMessage(chk.msg, offset[i], gitRef[i]),
                        Thrown(CatchMessage(chk.msg, offset[i], gitRef[i])))
                /\ execLog' = [execLog EXCEPT ![i] = logd]
                /\ UNCHANGED parts
           ELSE /\ parts' = [parts EXCEPT ![i] = chk.parts]
                /\ execLog' = [execLog EXCEPT ![i] =
                                  logd \o <<ExecCall(BodyFormat, gitRef[i], ~IsVerbose(verbose[i]), cwd[i])>>]
                /\ pc' = [pc EXCEPT ![i] = "body"]
                /\ UNCHANGED <<calls, result>>
    /\ UNCHANGED <<numCommits, fault, flavour, gitWorkingDirectory, processCwd, stepDebug,
                   inputOffset, inputVerbose, offset, verbose, gitRef, cwd>>

\* Mutant: a failed body query is swallowed and the record is returned with
\* an empty messageRaw
BodyDone_PartialOnFailure(i) ==
    /\ pc[i] = "body"
    /\ LET ex   == Exec(BodyFormat, gitRef[i], fault, numCommits, flavour)
           info == CommitInfoOf(parts[i], Trim(ex.out))
           logd == <<execLog[i][1], ExecDone(execLog[i][2], ex, fault)>>
       IN  /\ execLog' = [execLog EXCEPT ![i] = logd]
           /\ result' = [result EXCEPT ![i] = Returned(info)]
           /\ calls' = [calls EXCEPT ![i] = @ \o SetOutputs(info) \o Summary(info)]
           /\ pc' = [pc EXCEPT ![i] = "done"]
    /\ UNCHANGED <<numCommits, fault, flavour, gitWorkingDirectory, processCwd, stepDebug,
                   inputOffset, inputVerbose, offset, verbose, gitRef, cwd, parts>>

\* git.ts:88-110 and index.ts:45-65: the body query completes; build the
\* record; set the outputs
BodyDone(i) ==
    /\ pc[i] = "body"
    /\ LET ex   == Exec(BodyFormat, gitRef[i], fault, numCommits, flavour)
           info == CommitInfoOf(parts[i], Trim(ex.out))
           logd == <<execLog[i][1], ExecDone(execLog[i][2], ex, fault)>>
       IN  /\ execLog' = [execLog EXCEPT ![i] = logd]
           /\ IF ~ex.ok
              THEN Fail(i, CatchMessage(ex.msg, offset[i], gitRef[i]),
                        Thrown(CatchMessage(ex.msg, offset[i], gitRef[i])))
              ELSE /\ result' = [result EXCEPT ![i] = Returned(info)]
                   /\ calls' = [calls EXCEPT ![i] = @ \o SetOutputs(info) \o Summary(info)]
                   /\ pc' = [pc EXCEPT ![i] = "done"]
    /\ UNCHANGED <<numCommits, fault, flavour, gitWorkingDirectory, processCwd, stepDebug,
                   inputOffset, inputVerbose, offset, verbose, gitRef, cwd, parts>>

\* The environment changes while an invocation runs (the tool disappears,
\* comes back, starts reporting differently)
FaultChange ==
    /\ \E i \in Procs : pc[i] \in {"start", "fields", "body"}
    /\ \E f \in Faults \ {fault} : fault' = f
    /\ UNCHANGED <<numCommits, flavour, gitWorkingDirectory, processCwd, cwd, stepDebug,
                   inputOffset, inputVerbose, pc, offset,
                   verbose, gitRef, parts, execLog, calls, result>>

\* The override is set, changed or removed, or the process changes directory,
\* while an invocation runs (process.env and process.chdir are process-wide)
DirChange ==
    /\ \E i \in Procs : pc[i] \in {"start", "fields", "body"}
    /\ \/ /\ \E o \in Overrides \ {gitWorkingDirectory} : gitWorkingDirectory' = o
          /\ UNCHANGED processCwd
       \/ /\ \E d \in Dirs \ {processCwd} : processCwd' = d
          /\ UNCHANGED gitWorkingDirectory
    /\ UNCHANGED <<numCommits, fault, flavour, stepDebug, inputOffset, inputVerbose, pc,
                   offset, verbose, gitRef, cwd, parts, execLog, calls, result>>

Next ==
    \/ \E i \in Procs : RunStart(i)
    \/ \E i \in Procs : FieldsDone(i)
    \/ \E i \in Procs : BodyDone(i)
    \/ FaultChange

Spec == Init /\ [][Next]_vars

SpecPair == InitPair /\ [][Next]_vars

\* run() is synchronous up to its first await, and every subprocess that was
\* started completes: each step of an invocation that can be taken is taken
Fairness ==
    \A i \in Procs :
        /\ WF_vars(RunStart(i))
        /\ WF_vars(FieldsDone(i))
        /\ WF_vars(BodyDone(i))

\* One invocation; the inputs that reach each way run() can end
FairOffsets == { <<>>, <<"0">>, <<"-", "2">>, <<"a", "b", "c">> }

FairFlavours == {"plain", "titled", "blank", "sha256"}

InitFair ==
    /\ numCommits \in 0..MaxCommits
    /\ fault \in Faults
    /\ flavour \in FairFlavours
    /\ gitWorkingDirectory = Unset
    /\ processCwd = WorkDir
    /\ \E raw \in FairOffsets, flag \in RawVerbose :
          /\ inputOffset = [i \in Procs |-> IF i = 1 THEN raw ELSE <<"0">>]
          /\ inputVerbose = [i \in Procs |-> IF i = 1 THEN flag ELSE "false"]
    /\ pc = [i \in Procs |-> IF i = 1 THEN "start" ELSE "idle"]
    /\ InitLocals

SpecFair == InitFair /\ [][Next]_vars /\ Fairness

NextDir == Next \/ DirChange

SpecDir == InitDir /\ [][NextDir]_vars

\* ======================================================= properties
Done(i) == pc[i] = "done"

\* getCommitInfo was entered: its first query was issued
Called(i) == execLog[i] # <<>>

Magnitude(n) == IF n >= 0 THEN n ELSE 0 - n

IsSetOutput(c) == c.fn = "setOutput"

IsNotInfo(c) == c.fn # "info"

\* The values run() gave to an output key
OutputVals(i, key) ==
    {calls[i][k].val : k \in {m \in 1..Len(calls[i]) :
                                  calls[i][m].fn = "setOutput" /\ calls[i][m].key = key}}

NoOutputSet(i) == SelectSeq(calls[i], IsSetOutput) = <<>>

\* The messages run() reported through setFailed
FailedMsgs(i) ==
    {calls[i][k].val : k \in {m \in 1..Len(calls[i]) : calls[i][m].fn = "setFailed"}}

\* The two error shapes of getCommitInfo, recognised from the message text
IsReferenceNotFound(m) ==
    /\ m # <<>>
    /\ Head(m) = "Commit not found"
    /\ m[Len(m)] = "Offset may exceed commit history."

IsRetrievalFailed(m) == m # <<>> /\ Head(m) = "Failed to get commit info"

\* No query of the invocation met an environment fault
NoFaultSeen(i) == \A k \in 1..Len(execLog[i]) : execLog[i][k].fault = "none"

\* Two invocations saw the same environment at each of their queries
SameEnv(i, j) ==
    \A k \in 1..Len(execLog[i]) :
        k <= Len(execLog[j]) => execLog[i][k].fault = execLog[j][k].fault

OutputCalls(i) == SelectSeq(calls[i], IsSetOutput)

\* C1: for every n >= 0, the invocations with offset n and offset -n resolve
\* the identical reference and, against the same repository state, return the
\* identical record and outputs, or fail with the same kind of error.
C1_NegativeOffsetSameAsPositive ==
    \A i, j \in Procs :
        (/\ Done(i) /\ Done(j) /\ Called(i) /\ Called(j)
         /\ offset[i] = 0 - offset[j]
         /\ SameEnv(i, j) /\ SameEnv(j, i))
        => /\ gitRef[i] = gitRef[j]
           /\ result[i].kind = result[j].kind
           /\ result[i].info = result[j].info
           /\ OutputCalls(i) = OutputCalls(j)
           /\ IsReferenceNotFound(result[i].msg) = IsReferenceNotFound(result[j].msg)
           /\ IsRetrievalFailed(result[i].msg) = IsRetrievalFailed(result[j].msg)

C1_Witness ==
    /\ Done(1) /\ Done(2)
    /\ offset[1] = 2 /\ offset[2] = 0 - 2
    /\ result[1].kind = "record" /\ result[2].kind = "record"
    /\ result[1].info.sha = CommitSha(numCommits - 2)

\* C2: the reference is "HEAD" exactly when |offset| is 0 and "HEAD~N" with
\* N = |offset| otherwise, and every integer offset gets a reference (once the
\* inputs are parsed, the first query is issued with it).
C2_ReferenceFromOffset ==
    \A i \in Procs :
        /\ Called(i) =>
              /\ (gitRef[i] = <<"HEAD">>) <=> (Magnitude(offset[i]) = 0)
              /\ Magnitude(offset[i]) # 0 =>
                    gitRef[i] = <<"HEAD~">> \o NatToText(Magnitude(offset[i]))
              /\ RefValid(gitRef[i]) /\ RefDepth(gitRef[i]) = Magnitude(offset[i])
              /\ execLog[i][1].ref = gitRef[i]
        /\ (/\ pc[i] \notin {"idle", "start"}
            /\ inputVerbose[i] \in TrueValues \cup FalseValues
            /\ ~ParseInt(IF inputOffset[i] = <<>> THEN <<"0">> ELSE inputOffset[i]).nan)
           => Called(i)

C2_Witness ==
    /\ Called(1) /\ offset[1] = 0 - 3 /\ gitRef[1] = <<"HEAD~", "3">>

\* C3: in the four-commit repository, offset k with |k| <= 3 outputs the id of
\* the |k|-th ancestor of HEAD (0 -> C4, 1 -> C3, 2 and -2 -> C2).
C3_FourCommitScenario ==
    \A i \in Procs :
        (/\ numCommits = 4 /\ Done(i) /\ Called(i) /\ NoFaultSeen(i)
         /\ flavour \in GitFlavours
         /\ Magnitude(offset[i]) <= 3)
        => /\ OutputVals(i, "sha") = {CommitSha(4 - Magnitude(offset[i]))}
           /\ inputOffset[i] = <<"0">> => OutputVals(i, "sha") = {CommitSha(4)}
           /\ inputOffset[i] = <<"1">> => OutputVals(i, "sha") = {CommitSha(3)}
           /\ inputOffset[i] \in {<<"2">>, <<"-", "2">>}
                 => OutputVals(i, "sha") = {CommitSha(2)}

C3_Witness ==
    /\ numCommits = 4 /\ Done(1) /\ NoFaultSeen(1)
    /\ inputOffset[1] = <<"-", "2">>
    /\ flavour = "plain"
    /\ OutputVals(1, "sha") =
          {<<"c", "0", "f", "f", "e", "e", "2">> \o [k \in 1..33 |-> "0"]}

\* C4: a retrieval whose offset is strictly greater than the number of commits
\* reachable from HEAD never returns a record: it ends in the ReferenceNotFound
\* or the RetrievalFailed error, and no output key is set.
C4_OffsetBeyondHistoryFails ==
    \A i \in Procs :
        (Called(i) /\ offset[i] > numCommits)
        => /\ result[i].kind # "record"
           /\ NoOutputSet(i)
           /\ Done(i) =>
                 /\ result[i].kind = "error"
                 /\ IsReferenceNotFound(result[i].msg) \/ IsRetrievalFailed(result[i].msg)
                 /\ FailedMsgs(i) = {result[i].msg}

C4_Witness ==
    /\ Done(1) /\ offset[1] = 5 /\ numCommits < 5
    /\ result[1].kind = "error" /\ NoOutputSet(1)

\* C5: in the four-commit repository, offset 100 raises the ReferenceNotFound
\* error (message naming offset and reference, noting that the offset may
\* exceed the history) and not the generic RetrievalFailed error.
C5_Offset100IsReferenceNotFound ==
    \A i \in Procs :
        (/\ numCommits = 4 /\ Done(i) /\ NoFaultSeen(i)
         /\ inputOffset[i] = <<"1", "0", "0">>
         /\ inputVerbose[i] \in TrueValues \cup FalseValues)
        => /\ IsReferenceNotFound(result[i].msg)
           /\ ~IsRetrievalFailed(result[i].msg)

LastExec(i) == execLog[i][Len(execLog[i])]

SubprocessFailed(i) == Called(i) /\ ~LastExec(i).pending /\ ~LastExec(i).ok

\* C7: a subprocess failure whose message contains "ambiguous argument" or
\* "unknown revision" is re-raised as "Commit not found for offset <offset>
\* (git ref: <ref>). Offset may exceed commit history."; every other one as
\* "Failed to get commit info for offset <offset> (git ref: <ref>): <original
\* message>"; the two are exclusive and carry the signed offset and the ref.
C7_FailureClassification ==
    \A i \in Procs :
        SubprocessFailed(i) =>
            LET m       == LastExec(i).msg
                context == <<" for offset ">>
                           \o (IF offset[i] < 0 THEN <<"-">> ELSE <<>>)
                           \o NatToText(Magnitude(offset[i]))
                           \o <<" (git ref: ">> \o gitRef[i]
                missing == <<"Commit not found">> \o context
                           \o <<"). ", "Offset may exceed commit history.">>
                generic == <<"Failed to get commit info">> \o context \o <<"): ">> \o m
            IN  /\ result[i].kind = "error"
                /\ (Includes(m, "ambiguous argument") \/ Includes(m, "unknown revision"))
                      => result[i].msg = missing
                /\ ~(Includes(m, "ambiguous argument") \/ Includes(m, "unknown revision"))
                      => result[i].msg = generic
                /\ missing # generic
                /\ ~(IsReferenceNotFound(result[i].msg) /\ IsRetrievalFailed(result[i].msg))

C7_Witness ==
    /\ SubprocessFailed(1)
    /\ inputOffset[1] = <<"-", "5">>
    /\ Includes(LastExec(1).msg, "unknown revision")
    /\ ~Includes(LastExec(1).msg, "ambiguous argument")
    /\ result[1].msg = <<"Commit not found", " for offset ", "-", "5", " (git ref: ",
                         "HEAD~", "5", "). ", "Offset may exceed commit history.">>

\* An optional sign followed by decimal digits only
WellFormedInteger(raw) ==
    LET body == IF raw # <<>> /\ Head(raw) \in {"+", "-"} THEN Tail(raw) ELSE raw
    IN  body # <<>> /\ \A k \in 1..Len(body) : IsDigit(body[k])

\* C8: for every raw offset that is not a well-formed integer, run() fails
\* with `Invalid offset value: "<raw>". Offset must be an integer.` before any
\* git query is executed, and sets no output.
C8_NonIntegerOffsetRejected ==
    \A i \in Procs :
        (/\ pc[i] \notin {"idle", "start"}
         /\ inputOffset[i] # <<>>
         /\ ~WellFormedInteger(inputOffset[i])
         /\ inputVerbose[i] \in TrueValues \cup FalseValues)
        => /\ Done(i)
           /\ execLog[i] = <<>>
           /\ NoOutputSet(i)
           /\ FailedMsgs(i) = {<<"Invalid offset value", ": \"">> \o inputOffset[i]
                                   \o <<"\". Offset must be an integer.">>}

\* C9: when the offset input is absent or empty, run() behaves exactly as if
\* the offset were "0": it resolves HEAD and outputs the current-tip commit.
C9_EmptyOffsetIsZero ==
    \A i, j \in Procs :
        (/\ Done(i) /\ Done(j)
         /\ inputOffset[i] = <<>> /\ inputOffset[j] = <<"0">>
         /\ inputVerbose[i] = inputVerbose[j]
         /\ SameEnv(i, j) /\ SameEnv(j, i))
        => /\ calls[i] = calls[j]
           /\ result[i] = result[j]
           /\ execLog[i] = execLog[j]
           /\ gitRef[i] = <<"HEAD">>
           /\ (NoFaultSeen(i) /\ numCommits >= 1 /\ flavour \in GitFlavours)
                 => OutputVals(i, "sha") = {CommitSha(numCommits)}

C9_Witness ==
    /\ Done(1) /\ Done(2)
    /\ inputOffset[1] = <<>> /\ inputOffset[2] = <<"0">>
    /\ numCommits = 3
    /\ OutputVals(1, "sha") = {CommitSha(3)}
    /\ OutputVals(2, "sha") = {CommitSha(3)}

\* C10: in every run where an error is raised (invalid input, or any failure
\* of getCommitInfo), the message is first logged with core.error, then
\* setFailed is called with the same message, and setOutput is never called.
C10_ErrorLoggedThenFailed ==
    \A i \in Procs :
        /\ (Done(i) /\ result[i].kind # "record")
              => /\ \E m \in FailedMsgs(i) :
                       SelectSeq(calls[i], IsNotInfo) =
                           <<[fn |-> "error", key |-> "", val |-> m],
                             [fn |-> "setFailed", key |-> "", val |-> m]>>
                 /\ result[i].kind = "error" => FailedMsgs(i) = {result[i].msg}
        /\ (\E k \in 1..Len(calls[i]) : calls[i][k].fn \in {"error", "setFailed"})
              => NoOutputSet(i)

C10_Witness ==
    /\ Done(1) /\ result[1].kind = "error"
    /\ Len(execLog[1]) = 2
    /\ calls[1][Len(calls[1]) - 1].fn = "error"
    /\ calls[1][Len(calls[1])].fn = "setFailed"


\* How many times run() set an output key
OutputCount(i, key) ==
    Cardinality({m \in 1..Len(calls[i]) :
                     calls[i][m].fn = "setOutput" /\ calls[i][m].key = key})

Succeeded(i) == Done(i) /\ result[i].kind = "record"

\* C11: in every successful run each of sha, shortSha, message, author,
\* authorEmail, date and dateISO is set exactly once, to the corresponding
\* field of the record getCommitInfo returned, and setFailed is not called.
C11_SevenOutputsFromRecord ==
    \A i \in Procs :
        Succeeded(i) =>
            LET info == result[i].info
                want == [sha |-> info.sha, shortSha |-> info.shortSha,
                         message |-> info.message, author |-> info.author,
                         authorEmail |-> info.authorEmail, date |-> info.date,
                         dateISO |-> info.dateISO]
            IN  /\ \A key \in DOMAIN want :
                       /\ OutputCount(i, key) = 1
                       /\ OutputVals(i, key) = {want[key]}
                /\ FailedMsgs(i) = {}
                /\ \A m \in 1..Len(calls[i]) : calls[i][m].fn # "setFailed"

C11_Witness ==
    /\ Succeeded(1) /\ flavour = "titled" /\ numCommits = 2 /\ offset[1] = 1
    /\ OutputVals(1, "message") = {<<"Title line">>}
    /\ OutputVals(1, "author") = {<<"Test", " ", "User">>}
    /\ OutputVals(1, "authorEmail") = {<<"test@example.com">>}
    /\ OutputVals(1, "dateISO") = {<<"2024-01-01", " ", "11:30:00", " ", "+0000">>}


\* C12: in every successful run the output key messageRaw is set to the full
\* commit message of the resolved commit (the record's messageRaw field, the
\* trimmed result of the message body query).
C12_MessageRawOutputSet ==
    \A i \in Procs :
        Succeeded(i) =>
            /\ OutputCount(i, "messageRaw") >= 1
            /\ OutputVals(i, "messageRaw") = {result[i].info.messageRaw}


\* The fields query of an invocation completed successfully
FieldsQueryOk(i) == Called(i) /\ ~execLog[i][1].pending /\ execLog[i][1].ok

\* The captured output of the fields query
FieldsOut(i) == execLog[i][1].out

AllWhitespace(t) == \A k \in 1..Len(t) : t[k] \in {" ", "\n", "\t"}

\* C13: when the fields query succeeds but its trimmed output is empty,
\* getCommitInfo fails with the ReferenceNotFound error, whose message includes
\* the requested offset and the resolved reference and notes that the offset
\* may exceed the available history.
C13_EmptyOutputIsReferenceNotFound ==
    \A i \in Procs :
        (FieldsQueryOk(i) /\ AllWhitespace(FieldsOut(i)))
        => /\ Done(i)
           /\ result[i].kind = "error"
           /\ IsReferenceNotFound(result[i].msg)
           /\ Includes(result[i].msg, "Offset may exceed commit history.")


\* The number of "|"-separated fields of a text
FieldCount(t) == Cardinality({k \in 1..Len(t) : t[k] = "|"}) + 1

\* C14: whenever the trimmed output of the fields query does not split on "|"
\* into exactly seven fields, getCommitInfo fails with the MalformedOutput
\* error ("Unexpected git log format"), whatever the output holds; it is never
\* reported as ReferenceNotFound and never returns a record.
C14_WrongFieldCountIsMalformedOutput ==
    \A i \in Procs :
        (/\ FieldsQueryOk(i)
         /\ ~AllWhitespace(FieldsOut(i))
         /\ FieldCount(FieldsOut(i)) # 7)
        => /\ Done(i)
           /\ result[i].kind = "error"
           /\ Includes(result[i].msg, "Unexpected git log format")
           /\ ~IsReferenceNotFound(result[i].msg)


\* The first "|"-separated field of a text that has a "|"
FirstField(t) ==
    SubSeq(t, 1, (CHOOSE k \in 1..Len(t) :
                      t[k] = "|" /\ \A m \in 1..(k - 1) : t[m] # "|") - 1)

RECURSIVE CharCount(_)
CharCount(t) == IF t = <<>> THEN 0 ELSE Len(t[1]) + CharCount(Tail(t))

\* The fields query printed seven fields, the first of them not 40 characters
BadIdentifier(i) ==
    /\ FieldsQueryOk(i)
    /\ ~AllWhitespace(FieldsOut(i))
    /\ FieldCount(FieldsOut(i)) = 7
    /\ CharCount(FirstField(FieldsOut(i))) # 40

\* C15: whenever the fields query output splits into seven fields but the
\* first field is empty or not exactly 40 characters long, getCommitInfo fails
\* with the MalformedIdentifier error ("Invalid commit SHA format"), issues no
\* message body query, and returns no record.
C15_BadIdentifierIsMalformedIdentifier ==
    \A i \in Procs :
        BadIdentifier(i)
        => /\ Done(i)
           /\ Len(execLog[i]) = 1
           /\ result[i].kind = "error"
           /\ NoOutputSet(i)
           /\ Includes(result[i].msg, "Invalid commit SHA format")


HexChars ==
    {"0", "1", "2", "3", "4", "5", "6", "7", "8", "9",
     "a", "b", "c", "d", "e", "f", "A", "B", "C", "D", "E", "F"}

\* getCommitInfo returned a record
RecordReturned(i) == result[i].kind = "record"

\* C16: for every record getCommitInfo returns, for any text the fields query
\* can produce, the sha field is exactly 40 characters long and every
\* character of it is a hexadecimal digit.
C16_ShaIsFortyHexCharacters ==
    \A i \in Procs :
        RecordReturned(i) =>
            LET sha == result[i].info.sha
            IN  /\ CharCount(sha) = 40
                /\ \A k \in 1..Len(sha) : sha[k] \in HexChars


\* The n-th "|"-separated field of a text
RECURSIVE NthField(_, _)
NthField(t, n) ==
    LET hasPipe == \E k \in 1..Len(t) : t[k] = "|"
        first   == CHOOSE k \in 1..Len(t) :
                       t[k] = "|" /\ \A m \in 1..(k - 1) : t[m] # "|"
    IN  IF n = 1
        THEN IF hasPipe THEN SubSeq(t, 1, first - 1) ELSE t
        ELSE NthField(SubSeq(t, first + 1, Len(t)), n - 1)

IsPrefixOf(a, b) == Len(a) <= Len(b) /\ SubSeq(b, 1, Len(a)) = a

FirstLine(t) ==
    IF \E k \in 1..Len(t) : t[k] = "\n"
    THEN SubSeq(t, 1, (CHOOSE k \in 1..Len(t) :
                           t[k] = "\n" /\ \A m \in 1..(k - 1) : t[m] # "\n") - 1)
    ELSE t

\* C18: for every record getCommitInfo returns, the first line of messageRaw
\* (messageRaw split on newline, first element) equals the message field.
C18_FirstLineOfMessageRawIsSubject ==
    \A i \in Procs :
        RecordReturned(i) => FirstLine(result[i].info.messageRaw) = result[i].info.message


\* The captured output of the message body query
BodyOut(i) == execLog[i][2].out

\* C19: messageRaw is the captured output of the message body query with only
\* leading and trailing whitespace removed: what is cut off at either end is
\* whitespace, what is kept neither starts nor ends with whitespace, and every
\* token in between stays where it was, line breaks and blank lines included.
\* For the message "Title line\n\nExtended description.\n" the subject is
\* "Title line" and messageRaw keeps the blank line.
C19_MessageRawIsBodyTrimmed ==
    \A i \in Procs :
        RecordReturned(i) =>
            LET out == BodyOut(i)
                raw == result[i].info.messageRaw
            IN  /\ execLog[i][2].format = "--format=%B"
                /\ \E a \in 0..Len(out) : \E b \in a..Len(out) :
                       /\ AllWhitespace(SubSeq(out, 1, a))
                       /\ AllWhitespace(SubSeq(out, b + 1, Len(out)))
                       /\ raw = SubSeq(out, a + 1, b)
                /\ raw # <<>> => /\ raw[1] \notin {" ", "\n", "\t"}
                                 /\ raw[Len(raw)] \notin {" ", "\n", "\t"}
                /\ flavour = "titled"
                   => /\ result[i].info.message = <<"Title line">>
                      /\ raw = <<"Title line", "\n", "\n", "Extended description.">>
                      /\ OutputVals(i, "message") = {<<"Title line">>}

C19_Witness ==
    /\ RecordReturned(1) /\ flavour = "titled"
    /\ BodyOut(1) = <<"Title line", "\n", "\n", "Extended description.", "\n", "\n">>
    /\ result[1].info.messageRaw = <<"Title line", "\n", "\n", "Extended description.">>


\* A text without the whitespace that ends it
WithoutTrailingSpace(t) ==
    LET ink == {k \in 1..Len(t) : t[k] \notin {" ", "\n", "\t"}}
    IN  IF ink = {} THEN <<>>
        ELSE SubSeq(t, 1, CHOOSE k \in ink : \A m \in ink : m <= k)

\* The values of a record's fields
RecordValues(info) ==
    {info.sha, info.shortSha, info.message, info.messageRaw, info.author,
     info.authorEmail, info.date, info.dateISO}

\* C20: in every returned record date and dateISO are equal, and both are the
\* seventh field of the fields query output (the committer timestamp).  The
\* sixth field (the author timestamp), when the query printed nothing else
\* that reads the same, is no field of the record and no output value.
C20_DatesAreCommitterTimestamp ==
    \A i \in Procs :
        RecordReturned(i) =>
            LET info  == result[i].info
                sixth == NthField(FieldsOut(i), 6)
                seven == WithoutTrailingSpace(NthField(FieldsOut(i), 7))
            IN  /\ info.date = info.dateISO
                /\ info.date = seven
                /\ Done(i) => /\ OutputVals(i, "date") = {seven}
                              /\ OutputVals(i, "dateISO") = {seven}
                /\ (/\ \A n \in {1, 2, 3, 4, 5} : NthField(FieldsOut(i), n) # sixth
                    /\ seven # sixth
                    /\ WithoutTrailingSpace(BodyOut(i)) # sixth)
                   => /\ sixth \notin RecordValues(info)
                      /\ \A k \in 1..Len(calls[i]) :
                             calls[i][k].fn = "setOutput" => calls[i][k].val # sixth

C20_Witness ==
    /\ Done(1) /\ RecordReturned(1) /\ flavour = "plain" /\ numCommits = 2
    /\ gitRef[1] = <<"HEAD">>
    /\ NthField(FieldsOut(1), 6) = <<"2024-01-02", " ", "10:00:00", " ", "+0000">>
    /\ result[1].info.date = <<"2024-01-02", " ", "11:30:00", " ", "+0000">>
    /\ OutputVals(1, "dateISO") = {<<"2024-01-02", " ", "11:30:00", " ", "+0000">>}


\* The message body query of an invocation completed and failed
BodyQueryFailed(i) ==
    Len(execLog[i]) = 2 /\ ~execLog[i][2].pending /\ ~execLog[i][2].ok

\* raw is out without the whitespace at its two ends
IsTrimOf(raw, out) ==
    /\ \E a \in 0..Len(out) : \E b \in a..Len(out) :
           /\ \A k \in 1..a : out[k] \in {" ", "\n", "\t"}
           /\ \A k \in (b + 1)..Len(out) : out[k] \in {" ", "\n", "\t"}
           /\ raw = SubSeq(out, a + 1, b)
    /\ raw # <<>> => raw[1] \notin {" ", "\n", "\t"} /\ raw[Len(raw)] \notin {" ", "\n", "\t"}

\* C21: getCommitInfo never returns a partially populated record.  A returned
\* record has every field taken from the output of two queries that both
\* completed successfully; anything else is an error carrying no field.  When
\* the fields query succeeds and validates but the message body query fails,
\* no record is returned and no output is set.
C21_AllOrNothing ==
    \A i \in Procs :
        /\ RecordReturned(i) =>
              LET info == result[i].info
              IN  /\ Len(execLog[i]) = 2
                  /\ \A k \in 1..2 : ~execLog[i][k].pending /\ execLog[i][k].ok
                  /\ info.sha = NthField(FieldsOut(i), 1)
                  /\ info.shortSha = NthField(FieldsOut(i), 2)
                  /\ info.message = NthField(FieldsOut(i), 3)
                  /\ info.author = NthField(FieldsOut(i), 4)
                  /\ info.authorEmail = NthField(FieldsOut(i), 5)
                  /\ info.date = WithoutTrailingSpace(NthField(FieldsOut(i), 7))
                  /\ info.dateISO = info.date
                  /\ IsTrimOf(info.messageRaw, BodyOut(i))
        /\ ~RecordReturned(i) =>
              /\ \A f \in RecordValues(result[i].info) : f = <<>>
              /\ NoOutputSet(i)
        /\ (FieldsQueryOk(i) /\ BodyQueryFailed(i)) =>
              /\ result[i].kind = "error"
              /\ NoOutputSet(i)
              /\ FailedMsgs(i) = {result[i].msg}

C21_Witness ==
    /\ FieldsQueryOk(1) /\ BodyQueryFailed(1) /\ Done(1)
    /\ NthField(FieldsOut(1), 3) = <<"Title line">>
    /\ result[1].kind = "error" /\ NoOutputSet(1)


\* The queries of an invocation that were issued with a given format
QueriesOf(i, format) ==
    {k \in 1..Len(execLog[i]) : execLog[i][k].format = format}

\* C22: no retry is ever performed.  In an invocation of getCommitInfo the
\* fields query is executed exactly once and the message body query at most
\* once: exactly two subprocess invocations on success, at most two on
\* failure, and a query that fails is the last one, ending the invocation.
C22_NoRetry ==
    \A i \in Procs :
        Called(i) =>
            /\ Cardinality(QueriesOf(i, "--format=%H|%h|%s|%an|%ae|%ai|%ci")) = 1
            /\ Cardinality(QueriesOf(i, "--format=%B")) <= 1
            /\ Len(execLog[i]) <= 2
            /\ RecordReturned(i) => Len(execLog[i]) = 2
            /\ \A k \in 1..Len(execLog[i]) :
                   (~execLog[i][k].pending /\ ~execLog[i][k].ok)
                   => /\ k = Len(execLog[i])
                      /\ Done(i)
                      /\ result[i].kind = "error"
            /\ Done(i) => \A k \in 1..Len(execLog[i]) : ~execLog[i][k].pending

C22_Witness ==
    /\ Done(1) /\ Len(execLog[1]) = 1
    /\ ~execLog[1][1].ok /\ execLog[1][1].fault = "nogit"
    /\ result[1].kind = "error"


\* C23: retrieval is stateless and idempotent.  Calls of getCommitInfo with
\* the same offset against the same repository, meeting the same environment
\* at each query, give back the identical result (the identical record, or
\* the identical error), whatever the other call was: verbose or not, and
\* whether or not it had already switched step debugging on for the process.
C23_RepeatedCallsIdentical ==
    \A i, j \in Procs :
        (/\ Done(i) /\ Done(j) /\ Called(i) /\ Called(j)
         /\ offset[i] = offset[j]
         /\ SameEnv(i, j) /\ SameEnv(j, i))
        => /\ result[i] = result[j]
           /\ gitRef[i] = gitRef[j]
           /\ Len(execLog[i]) = Len(execLog[j])
           /\ \A k \in 1..Len(execLog[i]) :
                  /\ execLog[i][k].out = execLog[j][k].out
                  /\ execLog[i][k].ok = execLog[j][k].ok

C23_Witness ==
    /\ Done(1) /\ Done(2) /\ numCommits = 3
    /\ offset[1] = 2 /\ offset[2] = 2
    /\ verbose[1] /\ ~verbose[2] /\ stepDebug
    /\ result[1].kind = "record" /\ result[2].kind = "record"
    /\ result[2].info.messageRaw = <<"Initial", " ", "commit">>


\* The program and arguments of the queries an invocation issued, in order
QueryShapes(i) == [k \in 1..Len(execLog[i]) |-> <<execLog[i][k].format, execLog[i][k].ref>>]

\* What run() reported, the diagnostics left aside
Reported(i) == SelectSeq(calls[i], IsNotInfo)

\* C24: diagnostics do not influence the result.  For the same offset input
\* and repository state, meeting the same environment at each query, a run
\* with verbose true and a run with verbose false issue the same queries
\* against the same reference and end with the same outcome: the same
\* outputs on success, the same error on failure.
C24_VerboseDoesNotChangeOutcome ==
    \A i, j \in Procs :
        (/\ Done(i) /\ Done(j)
         /\ inputOffset[i] = inputOffset[j]
         /\ verbose[i] /\ ~verbose[j]
         /\ SameEnv(i, j) /\ SameEnv(j, i))
        => /\ QueryShapes(i) = QueryShapes(j)
           /\ gitRef[i] = gitRef[j]
           /\ result[i] = result[j]
           /\ OutputCalls(i) = OutputCalls(j)
           /\ FailedMsgs(i) = FailedMsgs(j)
           /\ Reported(i) = Reported(j)
           /\ \A k \in 1..Len(execLog[i]) :
                  execLog[i][k].silent = FALSE /\ execLog[j][k].silent = TRUE

C24_Witness ==
    /\ Done(1) /\ Done(2) /\ numCommits = 2
    /\ inputOffset[1] = <<"-", "2">> /\ inputOffset[2] = <<"-", "2">>
    /\ verbose[1] /\ ~verbose[2]
    /\ NoFaultSeen(1) /\ NoFaultSeen(2)
    /\ QueryShapes(1) = << <<"--format=%H|%h|%s|%an|%ae|%ai|%ci", <<"HEAD~", "2">> >> >>
    /\ FailedMsgs(2) # {}


\* C25: the working directory of the queries is the GIT_WORKING_DIRECTORY
\* override whenever that is set and non-empty (taken from the process
\* directory when it is relative) and the process directory otherwise, always
\* an absolute path; it is determined once, when the invocation starts, so the
\* message body query runs where the fields query ran even if the override or
\* the process directory changed while the fields query was in flight.
C25_WorkingDirectoryFixedAtStart ==
    [][\A i \in Procs :
          /\ (pc[i] = "start" /\ pc'[i] = "fields") =>
                LET env  == gitWorkingDirectory
                    used == execLog'[i][1].cwd
                IN  /\ Len(execLog'[i]) = 1
                    /\ used # <<>> /\ used[1] = "/"
                    /\ (env.set /\ env.val # <<>> /\ env.val[1] = "/") => used = env.val
                    /\ (env.set /\ env.val # <<>> /\ env.val[1] # "/")
                          => used = processCwd \o <<"/">> \o env.val
                    /\ (~env.set \/ env.val = <<>>) => used = processCwd
          /\ (pc[i] = "fields" /\ pc'[i] = "body") =>
                /\ Len(execLog'[i]) = 2
                /\ execLog'[i][2].cwd = execLog[i][1].cwd
                /\ execLog'[i][1].cwd = execLog[i][1].cwd
          /\ (pc[i] \in {"fields", "body"}) =>
                \A k \in 1..Len(execLog[i]) :
                    k <= Len(execLog'[i]) /\ execLog'[i][k].cwd = execLog[i][k].cwd
      ]_vars

C25_Witness ==
    /\ Done(1) /\ Len(execLog[1]) = 2
    /\ execLog[1][1].cwd = <<"/", "work", "/", "sub">>
    /\ execLog[1][2].cwd = <<"/", "work", "/", "sub">>
    /\ gitWorkingDirectory = [set |-> TRUE, val |-> <<"/", "tmp", "/", "repo">>]
    /\ processCwd = <<"/", "home">>


\* C26: the two queries have exactly the shapes
\*   git log -1 --format=%H|%h|%s|%an|%ae|%ai|%ci <reference>
\*   git log -1 --format=%B <reference>
\* and within one invocation both carry the same reference, the one resolved
\* from the requested offset.
C26_QueryShapes ==
    \A i \in Procs :
        Called(i) =>
            LET ref == IF Magnitude(offset[i]) = 0 THEN <<"HEAD">>
                       ELSE <<"HEAD~">> \o NatToText(Magnitude(offset[i]))
            IN  /\ execLog[i][1].program = "git"
                /\ execLog[i][1].args =
                      <<"log", "-1", "--format=%H|%h|%s|%an|%ae|%ai|%ci", ref>>
                /\ Len(execLog[i]) >= 2 =>
                      /\ execLog[i][2].program = "git"
                      /\ execLog[i][2].args = <<"log", "-1", "--format=%B", ref>>
                      /\ execLog[i][2].args[4] = execLog[i][1].args[4]
                /\ Len(execLog[i]) <= 2

C26_Witness ==
    /\ Len(execLog[1]) = 2 /\ inputOffset[1] = <<"-", "2">>
    /\ execLog[1][1].args =
          <<"log", "-1", "--format=%H|%h|%s|%an|%ae|%ai|%ci", <<"HEAD~", "2">> >>
    /\ execLog[1][2].args = <<"log", "-1", "--format=%B", <<"HEAD~", "2">> >>


\* C27: two invocations of getCommitInfo whose queries interleave in any
\* order do not interfere.  The record of each is built only from the output
\* of its own two queries, so it is the record of the commit its own offset
\* names, as when the invocation runs alone.
C27_InterleavedInvocationsIndependent ==
    \A i \in Procs :
        RecordReturned(i) =>
            LET info == result[i].info
                own  == numCommits - Magnitude(offset[i])
            IN  /\ info.sha = NthField(FieldsOut(i), 1)
                /\ info.shortSha = NthField(FieldsOut(i), 2)
                /\ info.message = NthField(FieldsOut(i), 3)
                /\ info.author = NthField(FieldsOut(i), 4)
                /\ info.authorEmail = NthField(FieldsOut(i), 5)
                /\ info.date = WithoutTrailingSpace(NthField(FieldsOut(i), 7))
                /\ IsTrimOf(info.messageRaw, BodyOut(i))
                /\ own \in 1..numCommits
                /\ info.sha[7] = DigitChars[own + 1]
                /\ info.shortSha[7] = DigitChars[own + 1]
                /\ info.message = <<Ordinal[own], " ", "commit">>
                /\ info.messageRaw = <<Ordinal[own], " ", "commit">>
                /\ \A j \in Procs \ {i} :
                       (RecordReturned(j) /\ Magnitude(offset[j]) # Magnitude(offset[i]))
                       => result[j].info.sha # info.sha

C27_Witness ==
    /\ numCommits = 3
    /\ RecordReturned(1) /\ RecordReturned(2)
    /\ offset[1] = 0 /\ offset[2] = 0 - 2
    /\ result[1].info.message = <<"Third", " ", "commit">>
    /\ result[2].info.message = <<"Initial", " ", "commit">>


\* The output of a fields query passes the three checks: it is not empty, it
\* has exactly seven fields, and its first field has 40 characters
PassesChecks(out) ==
    /\ ~AllWhitespace(out)
    /\ FieldCount(out) = 7
    /\ CharCount(FirstField(out)) = 40

\* C28: within one invocation the fields query completes before the message
\* body query starts; the message body query is issued only if the fields
\* query succeeded and its output passed all three checks; after a failed
\* check or a failed query no further subprocess is started.
C28_BodyQueryOnlyAfterValidFields ==
    \A i \in Procs :
        /\ Len(execLog[i]) >= 2 =>
              /\ execLog[i][1].format = "--format=%H|%h|%s|%an|%ae|%ai|%ci"
              /\ execLog[i][2].format = "--format=%B"
              /\ ~execLog[i][1].pending
              /\ execLog[i][1].ok
              /\ PassesChecks(FieldsOut(i))
        /\ \A k \in 1..Len(execLog[i]) : execLog[i][k].pending => k = Len(execLog[i])
        /\ (/\ Called(i) /\ ~execLog[i][1].pending
            /\ (~execLog[i][1].ok \/ ~PassesChecks(FieldsOut(i))))
           => /\ Len(execLog[i]) = 1
              /\ Done(i)
              /\ result[i].kind = "error"
        /\ (Len(execLog[i]) = 2 /\ ~execLog[i][2].pending) => Done(i)

C28_Witness ==
    /\ Done(1) /\ flavour = "sha256" /\ FieldsQueryOk(1)
    /\ FieldCount(FieldsOut(1)) = 7
    /\ CharCount(FirstField(FieldsOut(1))) = 64
    /\ Len(execLog[1]) = 1 /\ result[1].kind = "error"


SetFailedCount(i) ==
    Cardinality({m \in 1..Len(calls[i]) : calls[i][m].fn = "setFailed"})

\* The final state "success": every output set, setFailed never called
EndedInSuccess(i) ==
    /\ \A key \in {"sha", "shortSha", "message", "author", "authorEmail", "date", "dateISO"} :
           OutputCount(i, key) = 1
    /\ SetFailedCount(i) = 0

\* The final state "failure": setFailed called exactly once, no output set
EndedInFailure(i) ==
    /\ SetFailedCount(i) = 1
    /\ \A m \in 1..Len(calls[i]) : calls[i][m].fn # "setOutput"

\* C29: provided every subprocess eventually completes, every invocation of
\* run() eventually terminates, in exactly one of two final states: success
\* (the outputs set, setFailed never called) or failure (setFailed called
\* exactly once, no output set); never both, never neither, and nothing is
\* reported after the end.
C29_RunTerminatesInSuccessOrFailure ==
    /\ \A i \in Procs : [](pc[i] = "start" => <>Done(i))
    /\ [](\A i \in Procs :
             Done(i) => /\ EndedInSuccess(i) \/ EndedInFailure(i)
                        /\ ~(EndedInSuccess(i) /\ EndedInFailure(i)))
    /\ [][\A i \in Procs : Done(i) => (Done(i)' /\ calls'[i] = calls[i])]_vars

C29_Witness ==
    /\ Done(1) /\ BodyQueryFailed(1)
    /\ SetFailedCount(1) = 1 /\ EndedInFailure(1) /\ ~EndedInSuccess(1)


\* C30: against a linear history of c >= 1 commits (git working, the commits
\* as git reports them), getCommitInfo with offset k returns a record exactly
\* when |k| < c; offset c - 1 returns the root commit; it fails for every
\* |k| >= c, the boundary |k| = c included.
C30_RecordExactlyWithinHistory ==
    \A i \in Procs :
        (/\ Done(i) /\ Called(i) /\ NoFaultSeen(i)
         /\ numCommits >= 1 /\ flavour \in GitFlavours)
        => LET k == Magnitude(offset[i])
           IN  /\ RecordReturned(i) <=> k < numCommits
               /\ k >= numCommits => /\ result[i].kind = "error"
                                     /\ NoOutputSet(i)
                                     /\ Len(execLog[i]) = 1
               /\ k = numCommits - 1 =>
                     /\ RecordReturned(i)
                     /\ result[i].info.sha[7] = "1"
                     /\ flavour = "plain" =>
                           result[i].info.message = <<"Initial", " ", "commit">>
               /\ k < numCommits =>
                     result[i].info.sha[7] = DigitChars[numCommits - k + 1]

C30_Witness ==
    /\ Done(1) /\ NoFaultSeen(1) /\ flavour = "plain"
    /\ numCommits = 3 /\ inputOffset[1] = <<"-", "3">>
    /\ gitRef[1] = <<"HEAD~", "3">>
    /\ result[1].kind = "error" /\ NoOutputSet(1)

====
